---- MODULE Spec2Model ----
(***************************************************************************)
(* yafowil.plone.autoform.schema: resolution of a list of schemata into    *)
(* fieldsets.  One call of resolve_schemata is modelled as a state machine *)
(* whose steps are the iterations of its loops; the schemata, their        *)
(* fields, widget annotations and fieldset declarations are the inputs,    *)
(* drawn from small sets when the loop that reads them reaches them.       *)
(***************************************************************************)
EXTENDS Integers, Sequences, FiniteSets, TLC

\* plone.supermodel.interfaces.DEFAULT_ORDER, the "order not given" value
DEFAULT_ORDER == 9999

\* bounds of the model
MaxSchemata == 2
MaxFieldsets == 3

\* Python's None, and a present value, as an option
None == <<>>
Some(x) == <<x>>

(***************************************************************************)
(* Data holders                                                            *)
(***************************************************************************)

\* Fieldset.__init__
Fieldset(name, label, description, order) ==
    [name |-> name, label |-> label, description |-> description,
     order |-> order, children |-> <<>>]

\* add with the child put in front (self._children.insert(0, child))
add_in_front(fieldset, child) ==
    [fieldset EXCEPT !.children = <<child>> \o @]

\* Fieldset.add
add(fieldset, child) ==
    [fieldset EXCEPT !.children = Append(@, child)]

\* Field.__init__ ; the schema is identified by its index in the input list,
\* the schemafield by its name and its position in getFieldsInOrder.  The
\* convenience copies of title, description and required are read by no
\* operation of this module and are left out.
Field(name, schemafield, schema, widget, mode, is_behavior) ==
    [name |-> name, schemafield |-> schemafield, schema |-> schema,
     widget |-> widget, mode |-> mode, is_behavior |-> is_behavior]

\* Widget.__init__ with its defaults factory=None, params=dict()
EmptyParams == {}
Widget(factory, params) == [factory |-> factory, params |-> params]

(***************************************************************************)
(* resolve_widget                                                          *)
(***************************************************************************)

\* Raw annotations: a value with its Python type.
Annotation(type, text, factory, params) ==
    [type |-> type, text |-> text, factory |-> factory, params |-> params]

NoAnnotation == Annotation("NoneType", "None", None, EmptyParams)

\* Python truth value of an annotation (what `not schema_widget` tests)
Truthy(w) ==
    CASE w.type = "NoneType" -> FALSE
      [] w.type = "str" -> w.text # ""
      [] w.type = "int" -> w.text # "0"
      [] OTHER -> TRUE

\* zope.dottedname.resolve.resolve: the names that import, and what they give
Resolvable == {"pkg.mod.MyWidget"}
resolve(path) == "<class " \o path \o ">"

\* The outcome of resolve_widget: a returned value or a raised exception.
Returned(v) == [raised |-> FALSE, value |-> v, type |-> "", arg |-> ""]
Raised(type, arg) == [raised |-> TRUE, value |-> None, type |-> type, arg |-> arg]

resolve_widget_falsy_last(schema_widget) ==
    IF schema_widget.type = "ParameterizedWidget"
    THEN Returned(Some(Widget(schema_widget.factory, schema_widget.params)))
    ELSE IF schema_widget.type = "str"
    THEN IF schema_widget.text \in Resolvable
         THEN Returned(Some(Widget(Some(resolve(schema_widget.text)), EmptyParams)))
         ELSE Raised("ImportError", schema_widget.text)
    ELSE IF ~Truthy(schema_widget)
    THEN Returned(None)
    ELSE Raised("RuntimeError", "Unknown widget: " \o schema_widget.text)

resolve_widget(schema_widget) ==
    IF ~Truthy(schema_widget)
    THEN Returned(None)
    ELSE IF schema_widget.type = "ParameterizedWidget"
    THEN Returned(Some(Widget(schema_widget.factory, schema_widget.params)))
    ELSE IF schema_widget.type = "str"
    THEN IF schema_widget.text \in Resolvable
         THEN Returned(Some(Widget(Some(resolve(schema_widget.text)), EmptyParams)))
         ELSE Raised("ImportError", schema_widget.text)
    ELSE Raised("RuntimeError", "Unknown widget: " \o schema_widget.text)

(***************************************************************************)
(* resolve_fieldset                                                        *)
(***************************************************************************)

\* A fieldset declaration of plone.supermodel: __name__, label, description,
\* order and the names of its fields.
SchemaFieldset(name, label, description, order, fields) ==
    [name |-> name, label |-> label, description |-> description,
     order |-> order, fields |-> fields]

\* the label compared with the current label only
merge_label_unguarded(fieldset, label) ==
    IF label # fieldset.label THEN label ELSE fieldset.label

\* case label changes
merge_label(fieldset, label) ==
    IF label # fieldset.label /\ label # fieldset.name
    THEN label ELSE fieldset.label

\* the description tested for truth (if description:)
merge_description_truthy(fieldset, description) ==
    IF description # None /\ description # Some("")
    THEN description ELSE fieldset.description

\* case description changes
merge_description(fieldset, description) ==
    IF description # None THEN description ELSE fieldset.description

\* the order taken from every declaration, given or not
merge_order_always(fieldset, order) == order

\* case order changes
merge_order(fieldset, order) ==
    IF order # DEFAULT_ORDER THEN order ELSE fieldset.order

\* The dict after resolve_fieldset(fieldsets, schema_fieldset); the fieldset
\* the call returns is the entry of schema_fieldset.name.
resolve_fieldset(fieldsets, schema_fieldset) ==
    LET name == schema_fieldset.name
        label == schema_fieldset.label
        description == schema_fieldset.description
        order == schema_fieldset.order
    IN  IF name \notin DOMAIN fieldsets
        THEN [n \in DOMAIN fieldsets \cup {name} |->
                IF n = name THEN Fieldset(name, label, description, order)
                ELSE fieldsets[n]]
        ELSE [fieldsets EXCEPT ![name] =
                [@ EXCEPT !.label = merge_label(fieldsets[name], label),
                          !.description = merge_description(fieldsets[name], description),
                          !.order = merge_order(fieldsets[name], order)]]

(***************************************************************************)
(* Collections                                                             *)
(***************************************************************************)

\* name in fields, for the OrderedDict of Field instances
HasKey(fields, name) == \E i \in 1..Len(fields) : fields[i].name = name

\* the Field that fields.pop(name) returns
PopValue(fields, name) ==
    fields[CHOOSE i \in 1..Len(fields) : fields[i].name = name]

\* fields.get(name) in place of fields.pop(name): the entry stays
PopRest_get(fields, name) == fields

\* the OrderedDict that fields.pop(name) leaves
PopRest(fields, name) == SelectSeq(fields, LAMBDA f : f.name # name)

\* The orders in which fieldsets.values() can list a plain dict: Python 2
\* iterates a dict in the order of its hash table, which depends on the
\* keys' hashes and the build, not on the order of insertion.
DictOrders(fieldsets) ==
    {p \in [1..Cardinality(DOMAIN fieldsets) -> DOMAIN fieldsets] :
        \A i, j \in DOMAIN p : i # j => p[i] # p[j]}

values(fieldsets, keys) == [i \in DOMAIN keys |-> fieldsets[keys[i]]]

\* sorted(seq, key=attrgetter('order')): a stable sort
RECURSIVE InsertByOrder(_, _)
InsertByOrder(s, x) ==
    IF s = <<>> THEN <<x>>
    ELSE IF Head(s).order <= x.order
         THEN <<Head(s)>> \o InsertByOrder(Tail(s), x)
         ELSE <<x>> \o s

RECURSIVE SortedFrom(_, _)
SortedFrom(acc, s) ==
    IF s = <<>> THEN acc ELSE SortedFrom(InsertByOrder(acc, Head(s)), Tail(s))

sorted(s) == SortedFrom(<<>>, s)

(***************************************************************************)
(* resolve_schemata                                                        *)
(***************************************************************************)

VARIABLES
    pc,               \* position in resolve_schemata
    nschemata,        \* schemata the outer loop has taken; idx = nschemata - 1
    fieldsets,        \* the dict name -> Fieldset
    todo,             \* field names getFieldsInOrder has still to yield
    fields,           \* the OrderedDict of this schema's Field instances
    nfieldsets,       \* declarations taken so far, over all schemata
    fieldset,         \* the name under which fieldsets holds the Fieldset
                      \* that the variable fieldset refers to, if any
    members,          \* names of schema_fieldset.fields still to pop
    result,           \* the returned list, once returned
    err,              \* the exception that ended the call, if any
    \* history of the input read so far
    inserted,         \* names in the order they were inserted into fieldsets
    declared,         \* per name: the order and description of its declarations
    input_fields,     \* the (schema, field name) pairs of the schemata
    annotated,        \* per (schema, field name): widgets.get(name)
    named             \* the members the declarations named, with their place

vars == <<pc, nschemata, fieldsets, todo, fields, nfieldsets, fieldset,
          members, result, err, inserted, declared, input_fields, annotated,
          named>>

hist == <<inserted, declared, input_fields, annotated, named>>

idx == nschemata - 1

\* the history kept per fieldset name
NoDeclaration ==
    [count |-> 0, primary |-> FALSE, last_label |-> None,
     last_explicit_order |-> DEFAULT_ORDER, order_given_later |-> FALSE,
     last_present_description |-> None, last_nonempty_description |-> None,
     description_replaced |-> FALSE]

\* the history of a name after declaration d of the schema with this index:
\*   count         the declarations of the name so far
\*   primary       the schema with index 0 declared the name
\*   last_label    the label of the latest declaration
\*   last_explicit_order, last_present_description,
\*   last_nonempty_description
\*                 the latest order that is not DEFAULT_ORDER, the latest
\*                 description that is not None, the latest description
\*                 that is neither None nor empty
\*   order_given_later
\*                 a declaration gave an order after earlier ones gave none
\*   description_replaced
\*                 a behavior schema's declaration gave a description
\*                 where the primary schema's had given another
Declare(h, d, schema) ==
    [count |-> h.count + 1,
     primary |-> h.primary \/ schema = 0,
     last_label |-> Some(d.label),
     last_explicit_order |->
        IF d.order # DEFAULT_ORDER THEN d.order ELSE h.last_explicit_order,
     order_given_later |->
        \/ h.order_given_later
        \/ /\ h.count > 0
           /\ h.last_explicit_order = DEFAULT_ORDER
           /\ d.order # DEFAULT_ORDER,
     last_present_description |->
        IF d.description # None THEN d.description
        ELSE h.last_present_description,
     last_nonempty_description |->
        IF d.description # None /\ d.description # Some("") THEN d.description
        ELSE h.last_nonempty_description,
     description_replaced |->
        \/ h.description_replaced
        \/ /\ h.primary /\ schema # 0
           /\ h.last_nonempty_description # None
           /\ d.description \notin {None, Some(""), h.last_nonempty_description}]

\* lines 177-182: the dict with the default fieldset
InitFieldsets ==
    [n \in {"default"} |-> Fieldset("default", "Default", None, DEFAULT_ORDER)]

Init ==
    /\ pc = "schemata"
    /\ nschemata = 0
    /\ fieldsets = InitFieldsets
    /\ todo = <<>>
    /\ fields = <<>>
    /\ nfieldsets = 0
    /\ fieldset = None
    /\ members = <<>>
    /\ result = None
    /\ err = None
    /\ inserted = <<"default">>
    /\ declared = [n \in {"default"} |-> NoDeclaration]
    /\ input_fields = {}
    /\ annotated = {}
    /\ named = {}

\* line 183: the loop takes the next schema; lines 188-190
BeginSchema(FieldLists) ==
    /\ pc = "schemata"
    /\ nschemata < MaxSchemata
    /\ \E flds \in FieldLists :
        /\ todo' = flds
        /\ pc' = IF flds = <<>> THEN "fieldsets" ELSE "fields"
        /\ input_fields' = input_fields \cup
                {<<nschemata, flds[i]>> : i \in DOMAIN flds}
    /\ nschemata' = nschemata + 1
    /\ fields' = <<>>
    /\ fieldset' = None
    /\ UNCHANGED <<fieldsets, nfieldsets, members, result, err, inserted,
                   declared, annotated, named>>

\* the Field of lines 192-199 for the next name, given its resolved widget
NewField(name, widget) ==
    Field(name, [name |-> name, order |-> Len(fields) + 1], idx, widget,
          "edit", idx # 0)

\* lines 191-199: one iteration, resolve_widget returning
BuildField(Annotations) ==
    /\ pc = "fields"
    /\ todo # <<>>
    /\ \E w \in Annotations :
        LET r == resolve_widget(w) IN
        /\ ~r.raised
        /\ fields' = Append(fields, NewField(Head(todo), r.value))
        /\ annotated' = annotated \cup
                {[schema |-> idx, name |-> Head(todo), annotation |-> w]}
    /\ todo' = Tail(todo)
    /\ pc' = IF Tail(todo) = <<>> THEN "fieldsets" ELSE "fields"
    /\ UNCHANGED <<nschemata, fieldsets, nfieldsets, fieldset, members,
                   result, err, inserted, declared, input_fields, named>>

\* lines 191-199: one iteration, resolve_widget raising
BuildFieldRaise(Annotations) ==
    /\ pc = "fields"
    /\ todo # <<>>
    /\ \E w \in Annotations :
        LET r == resolve_widget(w) IN
        /\ r.raised
        /\ err' = Some([type |-> r.type, arg |-> r.arg, annotation |-> w])
    /\ pc' = "error"
    /\ UNCHANGED <<nschemata, fieldsets, todo, fields, nfieldsets,
                   fieldset, members, result, hist>>

\* lines 202-203: the next declaration of the schema is resolved
ResolveFieldset(Declarations) ==
    /\ pc = "fieldsets"
    /\ nfieldsets < MaxFieldsets
    /\ \E d \in Declarations :
        /\ fieldsets' = resolve_fieldset(fieldsets, d)
        /\ fieldset' = Some(d.name)
        /\ members' = d.fields
        /\ pc' = IF d.fields = <<>> THEN "fieldsets" ELSE "members"
        /\ inserted' = IF d.name \in DOMAIN fieldsets THEN inserted
                       ELSE Append(inserted, d.name)
        /\ declared' =
            [n \in DOMAIN declared \cup {d.name} |->
                IF n = d.name
                THEN Declare(IF n \in DOMAIN declared THEN declared[n]
                             ELSE NoDeclaration, d, idx)
                ELSE declared[n]]
        /\ named' = named \cup
            {[schema |-> idx, name |-> d.fields[i], group |-> d.name,
              decl |-> nfieldsets + 1, pos |-> i] : i \in DOMAIN d.fields}
    /\ nfieldsets' = nfieldsets + 1
    /\ UNCHANGED <<nschemata, todo, fields, result, err, input_fields,
                   annotated>>

\* lines 204-205: fieldset.add(fields.pop(field_name))
AddMember ==
    /\ pc = "members"
    /\ HasKey(fields, Head(members))
    /\ fieldsets' = [fieldsets EXCEPT
            ![fieldset[1]] = add(@, PopValue(fields, Head(members)))]
    /\ fields' = PopRest(fields, Head(members))
    /\ members' = Tail(members)
    /\ pc' = IF Tail(members) = <<>> THEN "fieldsets" ELSE "members"
    /\ UNCHANGED <<nschemata, todo, nfieldsets, fieldset, result, err,
                   hist>>

\* a missing name skipped in place of the KeyError
\* (fields.pop(field_name, None) guarded by a test)
AddMemberSkip ==
    /\ pc = "members"
    /\ ~HasKey(fields, Head(members))
    /\ members' = Tail(members)
    /\ pc' = IF Tail(members) = <<>> THEN "fieldsets" ELSE "members"
    /\ UNCHANGED <<nschemata, fieldsets, todo, fields, nfieldsets, fieldset,
                   result, err, hist>>

\* line 205: fields.pop(field_name) raises KeyError
AddMemberRaise ==
    /\ pc = "members"
    /\ ~HasKey(fields, Head(members))
    /\ err' = Some([type |-> "KeyError", arg |-> Head(members),
                    annotation |-> NoAnnotation])
    /\ pc' = "error"
    /\ UNCHANGED <<nschemata, fieldsets, todo, fields, nfieldsets,
                   fieldset, members, result, hist>>

\* the default fieldset with the remaining fields added, lines 207-209
RECURSIVE add_all(_, _)
add_all(target, values_) ==
    IF values_ = <<>> THEN target
    ELSE add_all(add(target, Head(values_)), Tail(values_))

\* lines 206-209: the declarations are exhausted
AddRemaining ==
    /\ pc = "fieldsets"
    /\ fieldsets' = [fieldsets EXCEPT !["default"] = add_all(@, fields)]
    /\ fieldset' = Some("default")
    /\ pc' = "schemata"
    /\ UNCHANGED <<nschemata, todo, fields, nfieldsets, members, result, err,
                   hist>>

\* the fieldsets without fields left out of the returned list
sorted_nonempty_fieldsets(keys) ==
    sorted(SelectSeq(values(fieldsets, keys), LAMBDA g : g.children # <<>>))

\* line 211, given the order in which the dict lists its values
sorted_fieldsets(keys) == sorted(values(fieldsets, keys))

\* lines 210-211: the schemata are exhausted
Return ==
    /\ pc = "schemata"
    /\ \E keys \in DictOrders(fieldsets) :
        result' = Some(sorted_fieldsets(keys))
    /\ pc' = "done"
    /\ UNCHANGED <<nschemata, fieldsets, todo, fields, nfieldsets,
                   fieldset, members, err, hist>>

(***************************************************************************)
(* Inputs and specifications                                               *)
(***************************************************************************)

IntAnnotation(text) == Annotation("int", text, None, EmptyParams)
StrAnnotation(text) == Annotation("str", text, None, EmptyParams)
ParameterizedWidget(widget_factory, params) ==
    Annotation("ParameterizedWidget", "<ParameterizedWidget>", widget_factory,
               params)

\* the fieldset declarations with these attributes
Declarations(names, labels, descriptions, orders, lists) ==
    {SchemaFieldset(n, l, d, o, f) :
        n \in names, l \in labels, d \in descriptions, o \in orders,
        f \in lists}

\* Inputs that vary the fields and their grouping: what getFieldsInOrder
\* yields, and declarations whose schema_fieldset.fields hold nothing, one
\* name, two names against the schema's order, or a name twice.
StructureFieldLists == {<<>>, <<"a", "b">>, <<"a", "b", "c">>}
StructureAnnotations == {NoAnnotation, IntAnnotation("42")}
StructureDeclarations ==
    Declarations({"default", "info"}, {"Info"}, {None}, {DEFAULT_ORDER},
                 {<<>>, <<"b">>, <<"c", "a">>, <<"b", "b">>})

Next ==
    \/ BeginSchema(StructureFieldLists)
    \/ BuildField(StructureAnnotations)
    \/ BuildFieldRaise(StructureAnnotations)
    \/ ResolveFieldset(StructureDeclarations)
    \/ AddMember
    \/ AddMemberRaise
    \/ AddRemaining
    \/ Return

Spec == Init /\ [][Next]_vars

\* Inputs that vary the order of the declarations.
OrderDeclarations ==
    Declarations({"default", "info", "more"}, {"Info"}, {None},
                 {DEFAULT_ORDER, 5, 10000}, {<<>>, <<"a">>})

NextOrder ==
    \/ BeginSchema({<<"a">>})
    \/ BuildField(StructureAnnotations)
    \/ BuildFieldRaise(StructureAnnotations)
    \/ ResolveFieldset(OrderDeclarations)
    \/ AddMember
    \/ AddMemberRaise
    \/ AddRemaining
    \/ Return

SpecOrder == Init /\ [][NextOrder]_vars

\* Inputs that vary the description of the declarations.
DescriptionDeclarations ==
    Declarations({"default", "info"}, {"Info"},
                 {None, Some(""), Some("D1"), Some("D2")},
                 {DEFAULT_ORDER}, {<<>>, <<"a">>})

NextDescription ==
    \/ BeginSchema({<<"a">>})
    \/ BuildField(StructureAnnotations)
    \/ BuildFieldRaise(StructureAnnotations)
    \/ ResolveFieldset(DescriptionDeclarations)
    \/ AddMember
    \/ AddMemberRaise
    \/ AddRemaining
    \/ Return

SpecDescription == Init /\ [][NextDescription]_vars

\* Inputs that vary the label of the declarations.
LabelDeclarations ==
    Declarations({"default", "info"},
                 {"default", "info", "Default", "Info"}, {None},
                 {DEFAULT_ORDER}, {<<>>, <<"a">>})

NextLabel ==
    \/ BeginSchema({<<"a">>})
    \/ BuildField(StructureAnnotations)
    \/ BuildFieldRaise(StructureAnnotations)
    \/ ResolveFieldset(LabelDeclarations)
    \/ AddMember
    \/ AddMemberRaise
    \/ AddRemaining
    \/ Return

SpecLabel == Init /\ [][NextLabel]_vars

\* Inputs that vary the widget annotations.
WidgetAnnotations ==
    {NoAnnotation, IntAnnotation("0"), IntAnnotation("42"),
     StrAnnotation(""), StrAnnotation("pkg.mod.MyWidget"),
     StrAnnotation("no.such.Widget"),
     ParameterizedWidget(None, EmptyParams),
     ParameterizedWidget(Some("TextWidget"), {<<"rows", "5">>})}

WidgetDeclarations ==
    Declarations({"info"}, {"Info"}, {None}, {DEFAULT_ORDER},
                 {<<"a">>, <<"b">>})

NextWidget ==
    \/ BeginSchema({<<"a">>})
    \/ BuildField(WidgetAnnotations)
    \/ BuildFieldRaise(WidgetAnnotations)
    \/ ResolveFieldset(WidgetDeclarations)
    \/ AddMember
    \/ AddMemberRaise
    \/ AddRemaining
    \/ Return

SpecWidget == Init /\ [][NextWidget]_vars

(***************************************************************************)
(* Properties of the returned list (specification Spec)                    *)
(***************************************************************************)

\* the returned list, where there is one
Returned_ == result[1]

\* the places <<i, j>> of the children in a list of fieldsets
Places(groups) ==
    UNION {{<<i, j>> : j \in DOMAIN groups[i].children} : i \in DOMAIN groups}

\* the declaration records that name the field of a schema
NamedBy(schema, name) ==
    {r \in named : r.schema = schema /\ r.name = name}

\* C1: a call that succeeds returns a list that holds exactly one fieldset
\* named "default", whatever the schemata (none at all, or all fields in
\* declared fieldsets); a call returns nothing before it succeeds.
C1_DefaultOnce ==
    /\ pc = "done" =>
        /\ result # None
        /\ Cardinality({i \in DOMAIN Returned_ :
                            Returned_[i].name = "default"}) = 1
    /\ pc # "done" => result = None

\* every field of a schema is in a declared fieldset, so "default" is
\* returned without children
C1_Witness ==
    /\ pc = "done"
    /\ input_fields # {}
    /\ \E i \in DOMAIN Returned_ :
        Returned_[i].name = "default" /\ Returned_[i].children = <<>>

\* C2: after a successful call every (schema, field name) pair of the input
\* has exactly one Field, which is exactly once among the children of the
\* returned fieldsets: in the fieldset of the declaration naming it,
\* otherwise in "default"; so the children are as many as the fields.
C2_EachFieldOnce ==
    pc = "done" =>
        /\ \A f \in input_fields :
            Cardinality({p \in Places(Returned_) :
                LET c == Returned_[p[1]].children[p[2]]
                IN  c.schema = f[1] /\ c.name = f[2]}) = 1
        /\ Cardinality(Places(Returned_)) = Cardinality(input_fields)
        /\ \A p \in Places(Returned_) :
            LET g == Returned_[p[1]]
                c == g.children[p[2]]
            IN  /\ <<c.schema, c.name>> \in input_fields
                /\ c.is_behavior = (c.schema # 0)
                /\ IF NamedBy(c.schema, c.name) = {}
                   THEN g.name = "default"
                   ELSE \A r \in NamedBy(c.schema, c.name) : g.name = r.group

\* two schemata with a field named "a" each, one in a declared fieldset and
\* one left to "default"
C2_Witness ==
    /\ pc = "done"
    /\ {<<0, "a">>, <<1, "a">>} \subseteq input_fields
    /\ \E r \in named : r.name = "a" /\ r.group = "info"
    /\ \E i \in DOMAIN Returned_ :
        /\ Returned_[i].name = "default"
        /\ \E j \in DOMAIN Returned_[i].children :
            Returned_[i].children[j].name = "a"

\* a declaration names a field its schema has not, or has no more
BadMember ==
    \E r \in named :
        \/ <<r.schema, r.name>> \notin input_fields
        \/ \E r2 \in named :
            r2 # r /\ r2.schema = r.schema /\ r2.name = r.name

\* C7: when a declaration lists a name that is not in its schema's working
\* set of fields (unknown, or taken by an earlier member), the call ends
\* with the missing-key error (KeyError) and returns nothing, however much
\* was processed before; no error leaves a partial result.
C7_MissingFieldAborts ==
    /\ BadMember =>
        /\ pc \in {"members", "error"}
        /\ pc = "error" => err # None /\ err[1].type = "KeyError"
    /\ pc = "error" => result = None /\ err # None
    /\ pc = "done" => err = None /\ ~BadMember

\* the second schema names a field it has not, after the first schema's
\* fields were put into fieldsets
C7_Witness ==
    /\ pc = "error"
    /\ err[1].type = "KeyError"
    /\ nschemata = 2
    /\ \E n \in DOMAIN fieldsets : fieldsets[n].children # <<>>
    /\ result = None

\* where a child was assigned: its schema, then the declaration and the
\* place in its list, or after all declarations the place in the schema
Assigned(c) ==
    IF NamedBy(c.schema, c.name) = {}
    THEN <<c.schema, MaxFieldsets + 1, c.schemafield.order>>
    ELSE LET r == CHOOSE r \in NamedBy(c.schema, c.name) : TRUE
         IN  <<c.schema, r.decl, r.pos>>

Before(k1, k2) ==
    \/ k1[1] < k2[1]
    \/ k1[1] = k2[1] /\ k1[2] < k2[2]
    \/ k1[1] = k2[1] /\ k1[2] = k2[2] /\ k1[3] < k2[3]

\* C8: the children of every returned fieldset are in the order of their
\* assignment: by schema, within a schema by declaration and by place in
\* the declaration's list, and the fields left to "default" after them in
\* the order of the schema's fields.
C8_ChildrenInAssignmentOrder ==
    pc = "done" =>
        \A i \in DOMAIN Returned_ :
            \A p, q \in DOMAIN Returned_[i].children :
                p < q => Before(Assigned(Returned_[i].children[p]),
                                Assigned(Returned_[i].children[q]))

\* "info" holds fields of both schemata, one declaration listing "c" before
\* "a", and "default" holds two fields left over by one schema
C8_Witness ==
    /\ pc = "done"
    /\ \E i \in DOMAIN Returned_ :
        /\ Returned_[i].name = "info"
        /\ \E p, q \in DOMAIN Returned_[i].children :
            /\ p < q
            /\ Returned_[i].children[p].schema = 0
            /\ Returned_[i].children[q].schema = 1
        /\ \E p \in DOMAIN Returned_[i].children :
            /\ p + 1 \in DOMAIN Returned_[i].children
            /\ Returned_[i].children[p].name = "c"
            /\ Returned_[i].children[p + 1].name = "a"
    /\ \E i \in DOMAIN Returned_ :
        /\ Returned_[i].name = "default"
        /\ \E p \in DOMAIN Returned_[i].children :
            /\ p + 1 \in DOMAIN Returned_[i].children
            /\ Returned_[i].children[p].schema
                    = Returned_[i].children[p + 1].schema

(***************************************************************************)
(* Order of the fieldsets (specification SpecOrder)                        *)
(***************************************************************************)

\* when a name was inserted into fieldsets, among the insertions
InsertedAt(name) == CHOOSE i \in DOMAIN inserted : inserted[i] = name

\* C3: the returned list is the fieldsets of the dict in ascending order,
\* and fieldsets of equal order are in the order in which their names were
\* inserted into the dict ("default" first, then by first declaration).
C3_SortedThenInsertionOrder ==
    pc = "done" =>
        /\ Len(Returned_) = Cardinality(DOMAIN fieldsets)
        /\ \A i \in DOMAIN Returned_ :
            /\ Returned_[i].name \in DOMAIN fieldsets
            /\ Returned_[i] = fieldsets[Returned_[i].name]
        /\ \A p, q \in DOMAIN Returned_ :
            p < q =>
                \/ Returned_[p].order < Returned_[q].order
                \/ /\ Returned_[p].order = Returned_[q].order
                   /\ InsertedAt(Returned_[p].name)
                        < InsertedAt(Returned_[q].name)

\* C4: the order of a fieldset is the order of the latest declaration of
\* its name that gave one, and DEFAULT_ORDER if none did; a declaration
\* without order changes no order; the returned list is ascending in these
\* orders, so a fieldset redeclared with order 5 is placed by 5.
C4_LastExplicitOrder ==
    /\ DOMAIN declared = DOMAIN fieldsets
    /\ \A n \in DOMAIN fieldsets :
        fieldsets[n].order = declared[n].last_explicit_order
    /\ pc = "done" =>
        /\ Len(Returned_) = Cardinality(DOMAIN fieldsets)
        /\ \A p, q \in DOMAIN Returned_ :
            p < q =>
                /\ Returned_[p].name # Returned_[q].name
                /\ declared[Returned_[p].name].last_explicit_order
                    <= declared[Returned_[q].name].last_explicit_order

\* the fieldset inserted after "default" was declared without order, then
\* with order 5, then again without, and is returned before "default"
C4_Witness ==
    /\ pc = "done"
    /\ Len(inserted) = 2
    /\ LET n == inserted[2] IN
        /\ declared[n].order_given_later
        /\ declared[n].count = 3
        /\ declared[n].last_explicit_order = 5
        /\ Returned_[1].name = n

(***************************************************************************)
(* Descriptions (specification SpecDescription)                            *)
(***************************************************************************)

\* C5 as stated: the description of a fieldset is that of the latest
\* declaration of its name that gave a non-empty one; a declaration without
\* description changes none.
C5_LastNonEmptyDescription ==
    \A n \in DOMAIN fieldsets :
        fieldsets[n].description = declared[n].last_nonempty_description

\* C5: the description of a fieldset is that of the latest declaration of
\* its name whose description is not None, the empty string included, and
\* None if there is none; a declaration whose description is None changes
\* none.
C5_LastPresentDescription ==
    /\ DOMAIN declared = DOMAIN fieldsets
    /\ \A n \in DOMAIN fieldsets :
        fieldsets[n].description = declared[n].last_present_description
    /\ pc = "done" =>
        \A i \in DOMAIN Returned_ :
            Returned_[i].description
                = declared[Returned_[i].name].last_present_description

\* the primary schema and a behavior schema declare "info" with different
\* descriptions, and the behavior schema's is returned
C5_Witness ==
    /\ pc = "done"
    /\ nschemata = 2
    /\ "info" \in DOMAIN declared
    /\ declared["info"].description_replaced
    /\ declared["info"].count = 2
    /\ \E i \in DOMAIN Returned_ :
        Returned_[i].name = "info" /\ Returned_[i].description = Some("D2")

(***************************************************************************)
(* Labels (specification SpecLabel)                                        *)
(***************************************************************************)

\* the declarations resolve_fieldset is applied to; it does not read their
\* fields
MergeInputs ==
    Declarations({"default", "info", "more"},
                 {"default", "info", "Default", "Info"},
                 {None, Some(""), Some("D1")}, {DEFAULT_ORDER, 5}, {<<>>})

\* C6: resolve_fieldset applied twice with the same declaration leaves the
\* dict as after the first application (label, description, order and
\* children); on the merge path no fieldset is created, the children stay,
\* and the label is replaced exactly when the declaration's label differs
\* from the current label and from the fieldset's name.
C6_MergeIdempotent ==
    \A d \in MergeInputs :
        LET once == resolve_fieldset(fieldsets, d)
            twice == resolve_fieldset(once, d)
        IN  /\ twice = once
            /\ d.name \in DOMAIN fieldsets =>
                LET old == fieldsets[d.name]
                    new == once[d.name]
                IN  /\ DOMAIN once = DOMAIN fieldsets
                    /\ \A n \in DOMAIN fieldsets \ {d.name} :
                        once[n] = fieldsets[n]
                    /\ new.children = old.children
                    /\ new.name = old.name
                    /\ new.label # old.label =>
                        /\ d.label # old.label
                        /\ d.label # old.name
                    /\ (d.label # old.label /\ d.label # old.name) =>
                        new.label = d.label

\* "info" was declared more than once, holds a field, and has the label of
\* its latest declaration, which is not its name
C6_Witness ==
    /\ "info" \in DOMAIN fieldsets
    /\ declared["info"].count >= 2
    /\ fieldsets["info"].children # <<>>
    /\ fieldsets["info"].label # "info"
    /\ declared["info"].last_label = Some(fieldsets["info"].label)

\* C9 as stated: the fieldset "default" has the label "Default" throughout
\* and in the returned list, whatever is declared.
C9_DefaultLabelFixed ==
    /\ fieldsets["default"].label = "Default"
    /\ pc = "done" =>
        \A i \in DOMAIN Returned_ :
            Returned_[i].name = "default" => Returned_[i].label = "Default"

\* C9: the fieldset "default" has the label "Default" until a declaration
\* named "default" gives a label that differs from the current label and
\* from "default"; each such declaration, and nothing else, replaces the
\* label by its own; the returned list holds the label so reached.
C9_DefaultLabelChange ==
    /\ [](declared["default"].count = 0 =>
            fieldsets["default"].label = "Default")
    /\ [][LET old == fieldsets["default"].label
              new == fieldsets'["default"].label
              step == declared'["default"].count
                        = declared["default"].count + 1
              label == declared'["default"].last_label
          IN  /\ new # old =>
                    step /\ label = Some(new) /\ new # "default"
              /\ (step /\ label # Some(old) /\ label # Some("default")) =>
                    label = Some(new)
              /\ pc' = "done" =>
                    \A i \in DOMAIN result'[1] :
                        result'[1][i].name = "default" =>
                            result'[1][i].label = old]_vars

\* "default" was relabelled "Info" by a declaration and a later declaration
\* with the label "default" left that label
C9_Witness ==
    /\ pc = "done"
    /\ declared["default"].count >= 2
    /\ declared["default"].last_label = Some("default")
    /\ \E i \in DOMAIN Returned_ :
        Returned_[i].name = "default" /\ Returned_[i].label = "Info"

(***************************************************************************)
(* Widgets (specification SpecWidget)                                      *)
(***************************************************************************)

\* the Field instances built so far: in the working set or in a fieldset
Built ==
    {fields[i] : i \in DOMAIN fields} \cup
    UNION {{fieldsets[n].children[j] : j \in DOMAIN fieldsets[n].children} :
            n \in DOMAIN fieldsets}

\* C10: resolve_widget gives every annotation one outcome: a false value
\* gives None; a ParameterizedWidget gives a Widget with its factory and
\* params; a non-empty string gives a Widget with the resolved object and
\* empty params, or the resolver's error unchanged; any other true value
\* raises the unknown-widget error (RuntimeError) that carries the value;
\* an error ends resolve_schemata without a result.
C10_WidgetOutcomes ==
    /\ \A f \in Built :
        \E r \in annotated :
            /\ r.schema = f.schema /\ r.name = f.name
            /\ LET w == r.annotation IN
                CASE w.type = "NoneType" -> f.widget = None
                  [] w.type = "ParameterizedWidget" ->
                        f.widget = Some([factory |-> w.factory,
                                         params |-> w.params])
                  [] w.type = "str" /\ w.text = "" -> f.widget = None
                  [] w.type = "str" /\ w.text # "" ->
                        /\ w.text \in Resolvable
                        /\ f.widget = Some([factory |-> Some(resolve(w.text)),
                                            params |-> {}])
                  [] OTHER -> w.text = "0" /\ f.widget = None
    /\ (pc = "error" /\ err[1].type # "KeyError") =>
        LET w == err[1].annotation IN
        /\ result = None
        /\ \/ /\ w.type = "str" /\ w.text \notin Resolvable \cup {""}
              /\ err[1].type = "ImportError" /\ err[1].arg = w.text
           \/ /\ w.type = "int" /\ w.text # "0"
              /\ err[1].type = "RuntimeError"
              /\ err[1].arg = "Unknown widget: " \o w.text
    /\ pc = "done" => err = None

\* the first schema's field got the Widget of a resolved dotted name, and
\* the second schema's annotation of another type ended the call
C10_Witness ==
    /\ pc = "error"
    /\ err[1].type = "RuntimeError"
    /\ nschemata = 2
    /\ \E f \in Built :
        /\ f.schema = 0
        /\ f.widget = Some([factory |-> Some("<class pkg.mod.MyWidget>"),
                            params |-> {}])
    /\ result = None

====
